---- MODULE Spec2Model ----
(***************************************************************************)
(* Model of photo-cropper (src/src/main.rs): the batch loop of main,       *)
(* process_image, the candidate filter / overlap resolver / warp / sort of *)
(* detect_photos, warp_photo's target size, order_points, rects_overlap,   *)
(* rect_bbox, is_image_file and the Canny threshold derivation.            *)
(*                                                                         *)
(* Coordinates are integers.  A RotatedRect is kept as the corner OpenCV   *)
(* calls pt[1] and its two edge vectors (w = size.width*(cos,sin),         *)
(* h = size.height*(-sin,cos)), so RotatedRect::points is exact.           *)
(***************************************************************************)
EXTENDS Integers, Sequences, FiniteSets, TLC

VARIABLES
    \* ---- geometry (order_points / warp_photo as pure functions)
    rect,        \* the RotatedRect under test, or NoRect
    box_points,  \* the four points handed to order_points
    ordered,     \* the last result of order_points, or <<>>
    first,       \* the first result of order_points for this point set
    warped,      \* Size of the Mat warp_photo returned, or NoMat
    \* ---- Canny thresholds
    canny_low, canny_high,   \* the arguments of detect_photos
    thresholds,              \* the <<low, high>> passed to imgproc::canny, or <<>>
    \* ---- batch run
    files,       \* the entries the directory walk yields, in order
    fi,          \* index of the entry main's loop is at
    pc,          \* position inside main / process_image / detect_photos
    rects,       \* detect_photos: candidates, then sorted by area
    filtered,    \* detect_photos: candidates kept by the overlap loop
    ri,          \* index of the candidate the overlap loop / warp loop is at
    photos,      \* detect_photos: warped photos; process_image: crops
    wi,          \* process_image: index of the crop being written
    written,     \* log of every imwrite that succeeded
    attempted,   \* indexes of the entries passed to process_image
    outcome,     \* per entry: what main printed for it, <<>> before that
    exit         \* main's return value, or None

geoVars == <<rect, box_points, ordered, first, warped>>
cannyVars == <<canny_low, canny_high, thresholds>>
runVars == <<files, fi, pc, rects, filtered, ri, photos, wi, written,
             attempted, outcome, exit>>
vars == <<geoVars, cannyVars, runVars>>

None == "None"
\* "no rectangle": the zero rectangle; "no Mat": Mat::default(), which is 0x0
NoRect == [corner |-> [x |-> 0, y |-> 0], w |-> [x |-> 0, y |-> 0],
           h |-> [x |-> 0, y |-> 0]]
NoMat == [width |-> 0, height |-> 0]

\* ------------------------------------------------------------- bounds
MaxDir == 2       \* edge directions (m,n) range over -MaxDir..MaxDir
MaxScale == 2     \* edge lengths are 1..MaxScale (and 10, 20) times |(m,n)|
MaxCoord == 1     \* free points range over (0..MaxCoord)^2

\* ------------------------------------------------------------ helpers
Max(a, b) == IF a >= b THEN a ELSE b
Min(a, b) == IF a <= b THEN a ELSE b

\* The one element of a singleton.  A value is bound through a singleton
\* ({ e(v) : v \in {x} }) where TLC should compute it once, not at each use.
TheOnly(S) == CHOOSE v \in S : TRUE

Pt(x, y) == [x |-> x, y |-> y]
Add(a, b) == [x |-> a.x + b.x, y |-> a.y + b.y]

\* f32::round of a square root: the integer nearest to sqrt(d2).  sqrt of
\* an integer is never a half-integer, so no tie case exists.
RECURSIVE RoundSqrtFrom(_, _)
RoundSqrtFrom(d2, r) ==
    IF 4 * d2 < (2 * r + 1) * (2 * r + 1) THEN r ELSE RoundSqrtFrom(d2, r + 1)
RoundSqrt(d2) == TheOnly({ RoundSqrtFrom(d, 0) : d \in {d2} })

\* ------------------------------------------------- RotatedRect::points
RotRect(corner, w, h) == [corner |-> corner, w |-> w, h |-> h]

points(r) ==
    << Add(r.corner, r.h), r.corner, Add(r.corner, r.w),
       Add(Add(r.corner, r.w), r.h) >>

\* size.width^2 and size.height^2
Width2(r) == r.w.x * r.w.x + r.w.y * r.w.y
Height2(r) == r.h.x * r.h.x + r.h.y * r.h.y

\* -------------------------------------------------------- order_points
\* Iterator::min_by returns the first of several equal minima,
\* Iterator::max_by the last of several equal maxima.
MinByIdx(s, key(_)) ==
    CHOOSE i \in 1..Len(s) :
        /\ \A j \in 1..Len(s) : key(s[i]) <= key(s[j])
        /\ \A j \in 1..(i - 1) : key(s[j]) > key(s[i])
MaxByIdx(s, key(_)) ==
    CHOOSE i \in 1..Len(s) :
        /\ \A j \in 1..Len(s) : key(s[i]) >= key(s[j])
        /\ \A j \in (i + 1)..Len(s) : key(s[j]) < key(s[i])

SumXY(p) == p.x + p.y
DiffXY(p) == p.x - p.y

\* ordered[0..3] of the source are ordered[1..4] here.
order_points(pts) ==
    TheOnly({ << p[MinByIdx(p, SumXY)], p[MinByIdx(p, DiffXY)],
                 p[MaxByIdx(p, SumXY)], p[MaxByIdx(p, DiffXY)] >> :
              p \in {pts} })

\* distance(a, b)^2
distance2(a, b) == (a.x - b.x) * (a.x - b.x) + (a.y - b.y) * (a.y - b.y)

\* ---------------------------------------------------------- warp_photo
\* The Size handed to warp_perspective, which is the size of the Mat
\* warp_photo returns.
TargetWidth(o) ==
    Max(RoundSqrt(Max(distance2(o[1], o[2]), distance2(o[4], o[3]))), 1)
TargetHeight(o) ==
    Max(RoundSqrt(Max(distance2(o[1], o[4]), distance2(o[2], o[3]))), 1)

warp_photo(r) ==
    TheOnly({ [width |-> TargetWidth(o), height |-> TargetHeight(o)] :
              o \in {order_points(points(r))} })

\* Mat::total
total(m) == m.width * m.height

\* ----------------------------------------------------- geometry inputs
Dirs == { d \in (-MaxDir..MaxDir) \X (-MaxDir..MaxDir) : d # <<0, 0>> }
Scales == (1..MaxScale) \cup {10, 20}
RectsAt(c) ==
    { RotRect(c, Pt(p * d[1], p * d[2]), Pt(-q * d[2], q * d[1])) :
        d \in Dirs, p \in Scales, q \in Scales }
RectInputs == RectsAt(Pt(0, 0))
CornerInputs == {Pt(0, 0), Pt(10, 0), Pt(10, 20), Pt(0, 20)}
WarpRectInputs == UNION { RectsAt(c) : c \in CornerInputs }
Grid == { Pt(x, y) : x \in 0..MaxCoord, y \in 0..MaxCoord }
Perms == { f \in [1..4 -> 1..4] : \A i, j \in 1..4 : f[i] = f[j] => i = j }

GeoIdle ==
    /\ rect = NoRect /\ box_points = <<>> /\ ordered = <<>>
    /\ first = <<>> /\ warped = NoMat

\* four corners of a rectangle, or four free points
OrderInit ==
    /\ \/ rect \in RectInputs /\ box_points = points(rect)
       \/ rect = NoRect /\ box_points \in [1..4 -> Grid]
    /\ ordered = <<>>
    /\ first = <<>>
    /\ warped = NoMat

\* a rectangle about to be warped
WarpInit ==
    /\ rect \in WarpRectInputs
    /\ box_points = <<>>
    /\ ordered = <<>>
    /\ first = <<>>
    /\ warped = NoMat

\* ordered = order_points(&box_points)
CallOrderPoints ==
    /\ box_points # <<>>
    /\ ordered = <<>>
    /\ ordered' = order_points(box_points)
    /\ first' = IF first = <<>> THEN ordered' ELSE first
    /\ UNCHANGED <<rect, box_points, warped, cannyVars, runVars>>

\* the caller presents the same four points in another order
Shuffle ==
    /\ ordered # <<>>
    /\ \E f \in Perms :
        /\ box_points' = [i \in 1..4 |-> box_points[f[i]]]
        /\ box_points' # box_points
    /\ ordered' = <<>>
    /\ UNCHANGED <<rect, first, warped, cannyVars, runVars>>

\* the caller feeds order_points its own output
Feedback ==
    /\ ordered # <<>>
    /\ box_points' = ordered
    /\ ordered' = <<>>
    /\ UNCHANGED <<rect, first, warped, cannyVars, runVars>>

\* warped = warp_photo(image, &rect)
CallWarpPhoto ==
    /\ rect # NoRect
    /\ box_points = <<>>
    /\ warped = NoMat
    /\ warped' = warp_photo(rect)
    /\ UNCHANGED <<rect, box_points, ordered, first, cannyVars, runVars>>

OrderNext ==
    \/ CallOrderPoints
    \/ Shuffle
    \/ Feedback

WarpNext == CallWarpPhoto

\* ===================================================== Canny thresholds
\* detect_photos computes the pair in f64.  An f64 keeps 53 significant
\* bits; the model keeps MantBits significant bits and rounds every result
\* to the nearest representable value, ties to even, as IEEE 754 does.
\* Only integer-valued thresholds are drawn.
MantBits == 8

RECURSIVE Pow2(_)
Pow2(n) == IF n = 0 THEN 1 ELSE 2 * Pow2(n - 1)

Abs(x) == IF x < 0 THEN -x ELSE x

\* spacing of the representable values around magnitude a
RECURSIVE StepOf(_, _)
StepOf(a, s) == IF a < Pow2(MantBits) * s THEN s ELSE StepOf(a, 2 * s)

RoundF(x) ==
    LET a == Abs(x)
        s == StepOf(a, 1)
        q == a \div s
        r == a % s
        up == 2 * r > s \/ (2 * r = s /\ q % 2 = 1)
        m == IF up THEN q + 1 ELSE q
    IN IF x < 0 THEN -(m * s) ELSE m * s

\* lines 176-181: the (low, high) pair handed to imgproc::canny
CannyThresholds(lo, hi) ==
    IF hi <= lo
    THEN <<lo, Max(RoundF(lo * 3), RoundF(lo + 1))>>
    ELSE <<lo, hi>>

MaxThresh == Pow2(MantBits + 1) + 8
FloatInputs == { x \in (-MaxThresh)..MaxThresh : RoundF(x) = x }

CannyIdle == canny_low = 0 /\ canny_high = 0 /\ thresholds = <<>>

CannyInit ==
    /\ canny_low \in FloatInputs
    /\ canny_high \in {0, 150, canny_low, RoundF(canny_low + 2),
                        RoundF(canny_low - 2)}
    /\ thresholds = <<>>

\* detect_photos up to the call of imgproc::canny
CallCanny ==
    /\ thresholds = <<>>
    /\ thresholds' = CannyThresholds(canny_low, canny_high)
    /\ UNCHANGED <<canny_low, canny_high, geoVars, runVars>>

CannyNext == CallCanny

\* ============================================================ batch run
MaxFiles == 2      \* entries the directory walk yields
MaxContours == 2   \* contours find_contours returns for one image

min_area == 20000  \* Args::min_area, its default

\* ------------------------------------------------------- is_image_file
EXTENSIONS == <<"jpg", "jpeg", "png", "bmp", "tif", "tiff">>

\* str::to_lowercase on the extensions the walk can yield
to_lowercase(e) ==
    CASE e = "PNG" -> "png"
      [] e = "JPG" -> "jpg"
      [] OTHER -> e

is_image_file(path) ==
    IF path.ext = None
    THEN FALSE
    ELSE \E k \in 1..Len(EXTENSIONS) : EXTENSIONS[k] = to_lowercase(path.ext)

\* Path::file_stem
file_stem(path) == path.stem

\* out_path: output_dir joined with format!("{}_{}.jpg", stem, idx + 1);
\* idx is 0-based in the source, n = idx + 1 here.
out_path(stem, n) == <<stem, n>>

Entry(d, s, e) == [dir |-> d, stem |-> s, ext |-> e]
EntryInputs ==
    { Entry("in", "scan", "jpg"), Entry("in/sub", "scan", "PNG"),
      Entry("in", "notes", "txt") }

\* the walks: sequences of distinct entries
WalkInputs ==
    UNION { { f \in [1..n -> EntryInputs] :
                \A i, j \in 1..n : f[i] = f[j] => i = j } : n \in 0..MaxFiles }

\* --------------------------------------------- rect_bbox, rects_overlap
SetMin(S) == CHOOSE m \in S : \A x \in S : m <= x
SetMax(S) == CHOOSE m \in S : \A x \in S : m >= x

rect_bbox(r) ==
    TheOnly({ [min_x |-> SetMin({ pts[i].x : i \in 1..4 }),
               min_y |-> SetMin({ pts[i].y : i \in 1..4 }),
               max_x |-> SetMax({ pts[i].x : i \in 1..4 }),
               max_y |-> SetMax({ pts[i].y : i \in 1..4 })] :
              pts \in {points(r)} })

\* a bug a reader could make: only a nested rectangle counts as overlapping
rects_overlap_nested(a, b) ==
    \E A \in {rect_bbox(a)}, B \in {rect_bbox(b)} :
        /\ A.min_x <= B.min_x /\ B.max_x <= A.max_x
        /\ A.min_y <= B.min_y /\ B.max_y <= A.max_y

rects_overlap(a, b) ==
    \E A \in {rect_bbox(a)}, B \in {rect_bbox(b)} :
        LET intersect_w ==
                Max(Min(A.max_x, B.max_x) - Max(A.min_x, B.min_x), 0)
            intersect_h ==
                Max(Min(A.max_y, B.max_y) - Max(A.min_y, B.min_y), 0)
        IN intersect_w > 0 /\ intersect_h > 0

\* ------------------------------------------------------ contour inputs
RectA == RotRect(Pt(0, 0), Pt(10, 0), Pt(0, 20))     \* (0,0)-(10,20)
RectB == RotRect(Pt(8, 6), Pt(4, 2), Pt(-2, 4))      \* rotated, over A and C
RectC == RotRect(Pt(10, 0), Pt(6, 0), Pt(0, 8))      \* touches A at x = 10
RectD == RotRect(Pt(20, 20), Pt(1, 0), Pt(0, 5))     \* size.width = 1

\* what contour_area and min_area_rect return for one contour
Contour(r, a) == [rect |-> r, area |-> a]
\* A below the area floor and at it; B at the floor and above it (the same
\* bounding box twice, and a tie with A); C above the floor (more area than
\* A, fewer pixels); D above the floor but degenerate.
ContourInputs ==
    { Contour(RectA, min_area - 1), Contour(RectA, min_area),
      Contour(RectB, min_area), Contour(RectB, min_area + 1),
      Contour(RectC, min_area + 1), Contour(RectD, min_area + 1) }

\* ------------------------------------------------------- stable sorts
\* slice::sort_by is stable.  Descending by key: x goes in front of the
\* first element whose key is strictly smaller.
\* Works on <<key, element>> pairs.
RECURSIVE InsertDesc(_, _)
InsertDesc(x, s) ==
    IF s = <<>> THEN <<x>>
    ELSE IF x[1] > Head(s)[1] THEN <<x>> \o s
    ELSE <<Head(s)>> \o InsertDesc(x, Tail(s))

RECURSIVE SortDescFrom(_, _)
SortDescFrom(done, rest) ==
    IF rest = <<>> THEN done
    ELSE SortDescFrom(InsertDesc(Head(rest), done), Tail(rest))

SortDesc(pairs) ==
    LET sorted == SortDescFrom(<<>>, pairs)
    IN [i \in 1..Len(sorted) |-> sorted[i][2]]

\* lines 212-223: what the loop over the contours pushes for contour
\* number k.  id is the contour's number: it tells apart candidates of
\* equal value.
Candidate(c, k) ==
    IF c.area < min_area THEN <<>>
    ELSE IF Width2(c.rect) <= 1 \/ Height2(c.rect) <= 1 THEN <<>>
    ELSE << [id |-> k, rect |-> c.rect, area |-> c.area] >>

\* a bug a reader could make: the candidates left in contour order
SortRectsUnsorted(rs) == rs

\* line 227: rects.sort_by(|a, b| b.area.partial_cmp(&a.area).unwrap())
SortRects(rs) == SortDesc([i \in 1..Len(rs) |-> <<rs[i].area, rs[i]>>])

\* a bug a reader could make: the photos left in warp order
SortPhotosUnsorted(ps) == ps

\* line 244: photos.sort_by(|a, b| b.warped.total().cmp(&a.warped.total()))
SortPhotos(ps) ==
    SortDesc([i \in 1..Len(ps) |-> <<total(ps[i].warped), ps[i]>>])

\* ------------------------------------------------------------- state
RunIdle ==
    /\ files = <<>> /\ fi = 0 /\ pc = "idle"
    /\ rects = <<>> /\ filtered = <<>> /\ ri = 0
    /\ photos = <<>> /\ wi = 0
    /\ written = <<>> /\ attempted = {} /\ outcome = <<>> /\ exit = None

\* main has parsed its arguments; the walk will yield `files`.
RunInit ==
    /\ files \in WalkInputs
    /\ fi = 1
    /\ pc = "start"
    /\ rects = <<>> /\ filtered = <<>> /\ ri = 0
    /\ photos = <<>> /\ wi = 0
    /\ written = <<>>
    /\ attempted = {}
    /\ outcome = [i \in 1..Len(files) |-> <<>>]
    /\ exit = None

\* the locals of process_image and detect_photos are dropped on return
DropLocals ==
    /\ rects' = <<>> /\ filtered' = <<>> /\ ri' = 0
    /\ photos' = <<>> /\ wi' = 0

\* a bug a reader could make: the error of one image is propagated with `?`
ErrArmAbort == pc' = "done" /\ fi' = fi /\ exit' = "Err"

\* lines 80-82: the Err arm of main's match prints and the loop goes on
ErrArm == pc' = "main" /\ fi' = fi + 1 /\ exit' = exit

\* the entries imwrite would make for the photos warped so far
Flushed(ps) ==
    [k \in 1..Len(ps) |->
        [img |-> fi, n |-> k, path |-> out_path(file_stem(files[fi]), k),
         total |-> total(ps[k].warped)]]

\* a bug a reader could make: what was warped before the failure is saved
AnalyzeErrFlush(cause) ==
    /\ written' = written \o Flushed(photos)
    /\ outcome' = [outcome EXCEPT ![fi] = <<"Failed to analyze", cause>>]
    /\ ErrArm
    /\ DropLocals
    /\ UNCHANGED <<geoVars, cannyVars, files, attempted>>

\* lines 100-101: detect_photos(...)? leaves process_image before any write;
\* the error main prints is the context and the failing step (its cause)
AnalyzeErr(cause) ==
    /\ written' = written
    /\ outcome' = [outcome EXCEPT ![fi] = <<"Failed to analyze", cause>>]
    /\ ErrArm
    /\ DropLocals
    /\ UNCHANGED <<geoVars, cannyVars, files, attempted>>

\* ----------------------------------------------------------- actions
\* lines 50-51: fs::create_dir_all(&args.output_dir)?
CreateOutputDir ==
    /\ pc = "start"
    /\ \/ pc' = "main" /\ exit' = exit
       \/ pc' = "done" /\ exit' = "Err"
    /\ UNCHANGED <<geoVars, cannyVars, files, fi, rects, filtered, ri,
                   photos, wi, written, attempted, outcome>>

\* lines 59-62: an entry that is no image file is skipped
MainSkip ==
    /\ pc = "main"
    /\ fi <= Len(files)
    /\ ~is_image_file(files[fi])
    /\ fi' = fi + 1
    /\ UNCHANGED <<geoVars, cannyVars, files, pc, rects, filtered, ri,
                   photos, wi, written, attempted, outcome, exit>>

\* lines 64-72: process_image is called on an image file
CallProcessImage ==
    /\ pc = "main"
    /\ fi <= Len(files)
    /\ is_image_file(files[fi])
    /\ attempted' = attempted \cup {fi}
    /\ pc' = "imread"
    /\ UNCHANGED <<geoVars, cannyVars, files, fi, rects, filtered, ri,
                   photos, wi, written, outcome, exit>>

\* line 86: the walk is exhausted
MainReturn ==
    /\ pc = "main"
    /\ fi > Len(files)
    /\ pc' = "done"
    /\ exit' = "Ok"
    /\ UNCHANGED <<geoVars, cannyVars, files, fi, rects, filtered, ri,
                   photos, wi, written, attempted, outcome>>

\* lines 97-98: imread
Imread ==
    /\ pc = "imread"
    /\ \/ /\ pc' = "detect"
          /\ UNCHANGED <<fi, exit, outcome, rects, filtered, ri, photos, wi>>
       \/ /\ outcome' = [outcome EXCEPT ![fi] = <<"Could not read image">>]
          /\ ErrArm
          /\ DropLocals
    /\ UNCHANGED <<geoVars, cannyVars, files, written, attempted>>

\* lines 128-207: a step from copy_make_border to find_contours fails
PreprocessFail ==
    /\ pc = "detect"
    /\ AnalyzeErr("preprocess")

\* lines 200-209: find_contours has returned its contours
FindContours ==
    /\ pc = "detect"
    /\ pc' = "contours"
    /\ rects' = <<>>
    /\ ri' = 1
    /\ UNCHANGED <<geoVars, cannyVars, files, fi, filtered, photos, wi,
                   written, attempted, outcome, exit>>

\* lines 211-224: one iteration of the loop over the contours
ContourStep ==
    /\ pc = "contours"
    /\ ri <= MaxContours
    /\ \E c \in ContourInputs : rects' = rects \o Candidate(c, ri)
    /\ ri' = ri + 1
    /\ UNCHANGED <<geoVars, cannyVars, files, fi, pc, filtered, photos, wi,
                   written, attempted, outcome, exit>>

\* lines 212, 217: contour_area(...)? or min_area_rect(...)? fails
ContourFail ==
    /\ pc = "contours"
    /\ ri <= MaxContours
    /\ AnalyzeErr("contour")

\* lines 227-228: no contour is left; the candidates are sorted by area
SortCandidates ==
    /\ pc = "contours"
    /\ rects' = SortRects(rects)
    /\ filtered' = <<>>
    /\ ri' = 1
    /\ pc' = "resolve"
    /\ UNCHANGED <<geoVars, cannyVars, files, fi, photos, wi, written,
                   attempted, outcome, exit>>

\* lines 229-236: one iteration of 'outer
ResolveStep ==
    /\ pc = "resolve"
    /\ ri <= Len(rects)
    /\ LET candidate == rects[ri]
       IN filtered' =
            IF \E k \in 1..Len(filtered) :
                   rects_overlap(filtered[k].rect, candidate.rect)
            THEN filtered
            ELSE Append(filtered, candidate)
    /\ ri' = ri + 1
    /\ UNCHANGED <<geoVars, cannyVars, files, fi, pc, rects, photos, wi,
                   written, attempted, outcome, exit>>

\* line 231: rects_overlap(...)? fails
ResolveFail ==
    /\ pc = "resolve"
    /\ ri <= Len(rects)
    /\ filtered # <<>>
    /\ AnalyzeErr("rects_overlap")

\* line 238: the overlap loop is over, the warp loop begins
ResolveDone ==
    /\ pc = "resolve"
    /\ ri > Len(rects)
    /\ pc' = "warp"
    /\ ri' = 1
    /\ photos' = <<>>
    /\ UNCHANGED <<geoVars, cannyVars, files, fi, rects, filtered, wi,
                   written, attempted, outcome, exit>>

\* lines 239-242: one surviving rectangle is warped
WarpStep ==
    /\ pc = "warp"
    /\ ri <= Len(filtered)
    /\ photos' = Append(photos, [id |-> filtered[ri].id,
                                 warped |-> warp_photo(filtered[ri].rect)])
    /\ ri' = ri + 1
    /\ UNCHANGED <<geoVars, cannyVars, files, fi, pc, rects, filtered, wi,
                   written, attempted, outcome, exit>>

\* line 240: warp_photo(...)? fails
WarpFail ==
    /\ pc = "warp"
    /\ ri <= Len(filtered)
    /\ AnalyzeErr("warp_photo")

\* lines 244-245, 100, 103: the photos sorted and returned to process_image
SortAndReturn ==
    /\ pc = "warp"
    /\ ri > Len(filtered)
    /\ photos' = SortPhotos(photos)
    /\ pc' = "write"
    /\ wi' = 1
    /\ UNCHANGED <<geoVars, cannyVars, files, fi, rects, filtered, ri,
                   written, attempted, outcome, exit>>

\* lines 105-116: one crop is written.  imwrite returns Ok(true) when the
\* file was written and Ok(false) when it was not; the source ignores which.
WriteStep ==
    /\ pc = "write"
    /\ wi <= Len(photos)
    /\ \/ written' = Append(written,
              [img |-> fi, n |-> wi,
               path |-> out_path(file_stem(files[fi]), wi),
               total |-> total(photos[wi].warped)])
       \/ written' = written
    /\ wi' = wi + 1
    /\ UNCHANGED <<geoVars, cannyVars, files, fi, pc, rects, filtered, ri,
                   photos, attempted, outcome, exit>>

\* line 115: imwrite(...)? fails
WriteFail ==
    /\ pc = "write"
    /\ wi <= Len(photos)
    /\ outcome' = [outcome EXCEPT ![fi] = <<"Failed to save cropped photo">>]
    /\ ErrArm
    /\ DropLocals
    /\ UNCHANGED <<geoVars, cannyVars, files, written, attempted>>

\* lines 118, 73-79: Ok(crops.len()) and the Ok arm of main's match
ProcessImageReturn ==
    /\ pc = "write"
    /\ wi > Len(photos)
    /\ outcome' = [outcome EXCEPT ![fi] =
                     IF Len(photos) = 0 THEN <<"No photos found">> ELSE <<"Saved">>]
    /\ pc' = "main"
    /\ fi' = fi + 1
    /\ DropLocals
    /\ UNCHANGED <<geoVars, cannyVars, files, written, attempted, exit>>

RunNext ==
    \/ CreateOutputDir
    \/ MainSkip
    \/ CallProcessImage
    \/ MainReturn
    \/ Imread
    \/ PreprocessFail
    \/ FindContours
    \/ ContourStep
    \/ ContourFail
    \/ SortCandidates
    \/ ResolveStep
    \/ ResolveFail
    \/ ResolveDone
    \/ WarpStep
    \/ WarpFail
    \/ SortAndReturn
    \/ WriteStep
    \/ WriteFail
    \/ ProcessImageReturn

\* ==================================================== specifications
\* the batch run
Init == RunInit /\ GeoIdle /\ CannyIdle
Next == RunNext
Spec == Init /\ [][Next]_vars

\* the batch run of a process that keeps running: main is sequential code
\* and every step of it is taken as soon as it is reached
FairSpec == Init /\ [][Next]_vars /\ WF_vars(Next)

\* order_points on drawn inputs
InitOrder == OrderInit /\ CannyIdle /\ RunIdle
SpecOrder == InitOrder /\ [][OrderNext]_vars

\* warp_photo on drawn rectangles
InitWarp == WarpInit /\ CannyIdle /\ RunIdle
SpecWarp == InitWarp /\ [][WarpNext]_vars

\* the Canny threshold pair on drawn inputs
InitCanny == CannyInit /\ GeoIdle /\ RunIdle
SpecCanny == InitCanny /\ [][CannyNext]_vars

\* ============================================================== claims
\* ---- C3.  For every rectangle with width and height greater than 1, at
\* any rotation, order_points applied to its four corners returns each
\* corner exactly once, and consecutive returned points (last-to-first
\* included) are adjacent corners of the rectangle, never diagonal ones.
Corners(r) == { points(r)[i] : i \in 1..4 }
AdjacentCorners(r, a, b) ==
    LET d == Pt(b.x - a.x, b.y - a.y)
    IN d \in { r.w, r.h, Pt(-r.w.x, -r.w.y), Pt(-r.h.x, -r.h.y) }
EachCornerOnce(r, o) ==
    \A c \in Corners(r) : Cardinality({ i \in 1..4 : o[i] = c }) = 1
C3_OrderPointsSimpleQuad ==
    (rect # NoRect /\ Width2(rect) > 1 /\ Height2(rect) > 1 /\ ordered # <<>>)
    => /\ EachCornerOnce(rect, ordered)
       /\ \A i \in 1..4 :
            AdjacentCorners(rect, ordered[i], ordered[(i % 4) + 1])

\* ---- C4.  order_points is canonical and idempotent: whatever the order
\* in which the same four points are presented, and also when it is applied
\* to its own output, it returns the ordered quadruple it returned first.
C4_OrderPointsCanonical == ordered # <<>> => ordered = first

\* ---- C9.  warp_photo on the axis-aligned rectangle with corners (0,0),
\* (10,0),(10,20),(0,20) returns an image 11 wide and 21 high.
IsClaimRect(r) == Corners(r) = {Pt(0, 0), Pt(10, 0), Pt(10, 20), Pt(0, 20)}
C9_WarpSizeIs11x21 ==
    (IsClaimRect(rect) /\ warped # NoMat)
    => warped = [width |-> 11, height |-> 21]

\* ---- C8.  The pair handed to the edge detector is strictly ascending;
\* a caller's high above low is passed unchanged; low = 50 with high = 0
\* gives the pair (50, 150), the same as low = 50 with high = 150.
C8_CannyPairAscending ==
    thresholds # <<>> =>
        /\ thresholds[1] = canny_low
        /\ thresholds[2] > thresholds[1]
        /\ canny_high > canny_low => thresholds[2] = canny_high
        /\ (canny_low = 50 /\ canny_high \in {0, 150})
               => thresholds = <<50, 150>>

\* ---- C1.  After every iteration of the overlap loop, no two candidates
\* in `filtered` have axis-aligned bounding boxes that intersect with
\* strictly positive width and strictly positive height.
BoxesIntersect(a, b) ==
    \E A \in {rect_bbox(a)}, B \in {rect_bbox(b)} :
        /\ A.min_x < B.max_x /\ B.min_x < A.max_x
        /\ A.min_y < B.max_y /\ B.min_y < A.max_y
C1_FilteredDisjoint ==
    \A i, j \in 1..Len(filtered) :
        i < j => ~BoxesIntersect(filtered[i].rect, filtered[j].rect)
C1_Witness ==
    /\ pc = "resolve"
    /\ ri > Len(rects)
    /\ Len(filtered) = 2

\* ---- C2.  When the overlap loop is over, a candidate has been dropped
\* exactly if its bounding box overlaps that of another, kept candidate
\* whose area is at least its own.  So a candidate larger than every other
\* is kept and some candidate of the largest area is kept; of two candidates
\* with the same bounding box and different areas only the larger is kept;
\* two candidates with disjoint bounding boxes are both kept; of two
\* overlapping candidates of different areas only the larger is kept.
Kept(c) == \E k \in 1..Len(filtered) : filtered[k].id = c.id
OnlyLargerKept(a, b) ==
    IF a.area > b.area THEN Kept(a) /\ ~Kept(b) ELSE Kept(b) /\ ~Kept(a)
C2_PrefersLarger ==
    (pc \in {"warp", "write"}) =>
        /\ \A i \in 1..Len(rects) :
              ~Kept(rects[i]) <=>
                 \E j \in 1..Len(rects) :
                    /\ j # i
                    /\ Kept(rects[j])
                    /\ rects[j].area >= rects[i].area
                    /\ BoxesIntersect(rects[j].rect, rects[i].rect)
        /\ \A i \in 1..Len(rects) :
              (\A j \in 1..Len(rects) : j # i => rects[j].area < rects[i].area)
                 => Kept(rects[i])
        /\ rects # <<>> =>
              \E i \in 1..Len(rects) :
                 /\ Kept(rects[i])
                 /\ \A j \in 1..Len(rects) : rects[j].area <= rects[i].area
        /\ Len(rects) = 2 =>
              LET a == rects[1]
                  b == rects[2]
              IN /\ (rect_bbox(a.rect) = rect_bbox(b.rect) /\ a.area # b.area)
                       => OnlyLargerKept(a, b)
                 /\ ~BoxesIntersect(a.rect, b.rect) => Kept(a) /\ Kept(b)
                 /\ (BoxesIntersect(a.rect, b.rect) /\ a.area # b.area)
                       => OnlyLargerKept(a, b)
\* the larger of two overlapping candidates came second out of find_contours
C2_Witness ==
    /\ pc = "warp"
    /\ Len(rects) = 2
    /\ rects[1].rect # rects[2].rect
    /\ BoxesIntersect(rects[1].rect, rects[2].rect)
    /\ Len(filtered) = 1
    /\ filtered[1].id = 2

\* ---- C5.  Once the batch loop of main runs, it ends with main returning
\* Ok and with every image file of the walk passed to process_image,
\* whatever the outcome of any image.
AllImagesAttempted ==
    \A i \in 1..Len(files) : is_image_file(files[i]) => i \in attempted
C5_BatchCompletes == (pc = "main") ~> (exit = "Ok" /\ AllImagesAttempted)
Failed(i) ==
    outcome[i] # <<>> /\ outcome[i][1] \notin {"Saved", "No photos found"}
C5_Witness ==
    /\ exit = "Ok"
    /\ \E i, j \in 1..Len(files) : i < j /\ Failed(i) /\ j \in attempted

\* ---- C6.  While detect_photos runs for an image, and after it has failed
\* for an image, no output file has been written for that image.
WrittenFor(i) == \E k \in 1..Len(written) : written[k].img = i
C6_NoPartialOutput ==
    /\ pc \in {"detect", "contours", "resolve", "warp"} => ~WrittenFor(fi)
    /\ \A i \in 1..Len(files) :
          (outcome[i] # <<>> /\ outcome[i][1] = "Failed to analyze")
             => ~WrittenFor(i)
\* a warp failed in an image processed after one whose crops were written
C6_Witness ==
    \E i \in 1..Len(files) :
        /\ outcome[i] = <<"Failed to analyze", "warp_photo">>
        /\ written # <<>>

\* ---- C7.  process_image receives exactly one photo per surviving
\* candidate, in non-increasing order of total pixel count, and writes them
\* in that order as <stem>_1, <stem>_2, ...: the file numbered n holds
\* photo n, and when every write so far succeeded no number is skipped.
WrittenOf(i) == SelectSeq(written, LAMBDA e : e.img = i)
C7_SortedAndNumbered ==
    pc = "write" =>
        LET W == WrittenOf(fi)
        IN /\ Len(photos) = Len(filtered)
           /\ \A k \in 1..Len(filtered) :
                 \E n \in 1..Len(photos) :
                    /\ photos[n].id = filtered[k].id
                    /\ photos[n].warped = warp_photo(filtered[k].rect)
           /\ \A n \in 1..(Len(photos) - 1) :
                 total(photos[n].warped) >= total(photos[n + 1].warped)
           /\ \A k \in 1..Len(W) :
                 /\ W[k].n \in 1..(wi - 1)
                 /\ W[k].path = <<files[fi].stem, W[k].n>>
                 /\ W[k].total = total(photos[W[k].n].warped)
                 /\ k > 1 => W[k - 1].n < W[k].n
           /\ Len(W) = wi - 1 => \A k \in 1..Len(W) : W[k].n = k
\* two crops written, the larger one warped second and written first
C7_Witness ==
    /\ pc = "write"
    /\ wi = 3
    /\ Len(WrittenOf(fi)) = 2
    /\ filtered[1].id = photos[2].id
    /\ total(photos[1].warped) > total(photos[2].warped)

\* ---- C10.  Within one run no two crops, of the same image or of two
\* images of the walk, are written to the same path of the output directory.
C10_DistinctPaths ==
    \A i, j \in 1..Len(written) : i < j => written[i].path # written[j].path

====
